---- MODULE Spec2Model ----
(***************************************************************************)
(* Model of the member-api helper module (src/unnamed/part_000): the       *)
(* promise-wrapped data-access helpers over the document store, the        *)
(* memoized Elasticsearch client accessor, canManageMember,                *)
(* parseCommaSeparatedString and setResHeaders.                            *)
(*                                                                         *)
(* JavaScript values are encoded so that TLC can compare them: null,       *)
(* undefined, true and false are the strings "null", "undefined", "true"   *)
(* and "false"; a possibly-absent array is a record [present, rows].       *)
(***************************************************************************)
EXTENDS Integers, Sequences, FiniteSets, TLC

VARIABLES
    call,       \* the helper invocation in progress or just finished
    dbItem,     \* the database item object the caller holds (mutated in place by update)
    host,       \* config.get('ES.HOST'), fixed for the life of the process
    esClient,   \* the module-level esClient variable
    constructed, \* how many Elasticsearch clients were constructed so far
    lastClient  \* what the latest getESClient call returned, and whether from the cache

vars == <<call, dbItem, host, esClient, constructed, lastClient>>

Null == "null"
Undefined == "undefined"
True == "true"
False == "false"

\* JavaScript truthiness of an encoded value (strings and the four literals).
Truthy(v) == v \notin {Null, Undefined, False, ""}

ToBool(b) == IF b THEN True ELSE False

----------------------------------------------------------------------------
\* Bounds of the model.

\* Longest result the store hands to a query/scan callback.
MaxRows == 2
\* Longest comma separated string, in symbols.
MaxLen == 3
\* Largest page, page size and total of a result envelope.
MaxPage == 4
MaxPerPage == 3
MaxTotal == 7
\* Cap on the count of constructed Elasticsearch clients.
MaxClients == 3

----------------------------------------------------------------------------
\* Entities and the document store's answers.

Fields == {"handleLower", "email"}
FieldValues == {"bob", "amy"}

\* A data object: values for some of the fields.
Data == UNION {[K -> FieldValues] : K \in SUBSET Fields}

ModelNames == {"Member", "MemberTrait"}

\* The rows a query or scan can find.
RowPool ==
    {[handleLower |-> "bob", email |-> "amy"], [handleLower |-> "amy", email |-> Undefined]}

RowSeqs == UNION {[1..n -> RowPool] : n \in 0..MaxRows}

\* What the store passes as `result`: nothing at all, or an array of rows.
NoResult == [present |-> FALSE, rows |-> <<>>]
Results == {NoResult} \cup {[present |-> TRUE, rows |-> r] : r \in RowSeqs}

\* What the store passes as `err`: null, or an error object.
StoreErrors == {"ConnectionError", "ValidationError"}

\* The (err, result) pairs of an exec callback, and the err of a save callback.
ExecResponses ==
    {[err |-> Null, result |-> r] : r \in Results}
        \cup {[err |-> e, result |-> NoResult] : e \in StoreErrors}
SaveResponses == {[err |-> e, result |-> NoResult] : e \in {Null} \cup StoreErrors}

NoResponse == [err |-> Null, result |-> NoResult]

\* The shape of a helper invocation.  phase is "idle" (nothing in progress),
\* "pending" (promise created, store call issued, callback not yet run),
\* "resolved" / "rejected" (promise settled), "thrown" (an exception left the
\* function or the callback) or "returned" (a synchronous function returned).
Idle ==
    [op |-> "none", phase |-> "idle", in |-> <<>>, resp |-> NoResponse,
     out |-> Undefined, error |-> "", storeCalls |-> 0]

\* new Promise(...) whose executor issues one store call.
Pending(op, in) ==
    [op |-> op, phase |-> "pending", in |-> in, resp |-> NoResponse,
     out |-> Undefined, error |-> "", storeCalls |-> 1]

resolve(c, r, value) == [c EXCEPT !.phase = "resolved", !.resp = r, !.out = value]
reject(c, r, e) == [c EXCEPT !.phase = "rejected", !.resp = r, !.error = e]
throw(c, r, e) == [c EXCEPT !.phase = "thrown", !.resp = r, !.error = e]

\* String.prototype.toLowerCase on the strings of the model.
toLowerCase(s) ==
    CASE s = "Bob" -> "bob"
      [] s = "BOB" -> "bob"
      [] s = "Amy" -> "amy"
      [] s = "Admin" -> "admin"
      [] s = "ADMINISTRATOR" -> "administrator"
      [] s = "Administrator" -> "administrator"
      [] OTHER -> s

----------------------------------------------------------------------------
\* getEntityByHashKey / getMemberByHandle
\* A callback that forgets the length test and resolves with result[0] of any array.
lookupCallbackNoLengthTest(c, r) ==
    IF r.err # Null
        THEN reject(c, r, r.err)
        ELSE IF r.result.present
            THEN resolve(c, r, IF Len(r.result.rows) > 0 THEN r.result.rows[1] ELSE Undefined)
            ELSE reject(c, r, "NotFound")

\* The exec callback of getEntityByHashKey and getMemberByHandle.
lookupCallback(c, r) ==
    IF r.err # Null
        THEN reject(c, r, r.err)
        ELSE IF r.result.present /\ Len(r.result.rows) > 0
            THEN resolve(c, r, r.result.rows[1])
            ELSE reject(c, r, "NotFound")

HashKeyNames == {"userId", "handleLower"}
Handles == {"Bob", "bob", "amy"}

getEntityByHashKey(modelName, hashKeyName, value) ==
    /\ call.phase = "idle"
    /\ call' = Pending("getEntityByHashKey",
                       [modelName |-> modelName, key |-> hashKeyName, eq |-> value])
    /\ UNCHANGED <<dbItem, host, esClient, constructed, lastClient>>

getMemberByHandle(handle) ==
    /\ call.phase = "idle"
    /\ call' = Pending("getMemberByHandle",
                       [modelName |-> "Member", key |-> "handleLower",
                        eq |-> toLowerCase(handle)])
    /\ UNCHANGED <<dbItem, host, esClient, constructed, lastClient>>

lookupExec(r) ==
    /\ call.phase = "pending"
    /\ call.op \in {"getEntityByHashKey", "getMemberByHandle"}
    /\ call' = lookupCallback(call, r)
    /\ UNCHANGED <<dbItem, host, esClient, constructed, lastClient>>

----------------------------------------------------------------------------
\* create / update

\* new models[modelName](data): an item holding data's fields.
newItem(data) == [k \in Fields |-> IF k \in DOMAIN data THEN data[k] ELSE Undefined]
\* An update that replaces the item's fields by data's instead of merging.
assignDataReplacing(item, data) == newItem(data)

\* Object.keys(data).forEach(key => { dbItem[key] = data[key] })
assignData(item, data) ==
    [k \in DOMAIN item \cup DOMAIN data |-> IF k \in DOMAIN data THEN data[k] ELSE item[k]]
\* A save callback that swallows the store's error.
saveCallbackSwallowing(c, r) == resolve(c, r, c.in.item)

\* The save callback of create and update; c.in.item is the item save was called on.
saveCallback(c, r) ==
    IF r.err # Null
        THEN reject(c, r, r.err)
        ELSE resolve(c, r, c.in.item)

create(modelName, data) ==
    /\ call.phase = "idle"
    /\ call' = Pending("create",
                       [modelName |-> modelName, data |-> data, before |-> newItem(data),
                        item |-> newItem(data)])
    /\ UNCHANGED <<dbItem, host, esClient, constructed, lastClient>>

update(data) ==
    /\ call.phase = "idle"
    /\ dbItem' = assignData(dbItem, data)
    /\ call' = Pending("update",
                       [modelName |-> "Member", data |-> data, before |-> dbItem,
                        item |-> dbItem'])
    /\ UNCHANGED <<host, esClient, constructed, lastClient>>

saveDone(r) ==
    /\ call.phase = "pending"
    /\ call.op \in {"create", "update"}
    /\ call' = saveCallback(call, r)
    /\ UNCHANGED <<dbItem, host, esClient, constructed, lastClient>>

----------------------------------------------------------------------------
\* scan / query

EmptyArray == [present |-> TRUE, rows |-> <<>>]

\* result.count: the number of rows of a present result.
count(result) == Len(result.rows)

\* The exec callback of scan.  Reading result.count of an absent result raises a
\* TypeError inside the callback, and the promise is never settled.
scanCallback(c, r) ==
    IF r.err # Null
        THEN reject(c, r, r.err)
        ELSE IF ~r.result.present
            THEN throw(c, r, "TypeError")
            ELSE resolve(c, r, IF count(r.result) = 0 THEN EmptyArray ELSE r.result)

\* The exec callback of query: resolve(result || []).
queryCallback(c, r) ==
    IF r.err # Null
        THEN reject(c, r, r.err)
        ELSE resolve(c, r, IF r.result.present THEN r.result ELSE EmptyArray)

scan(modelName) ==
    /\ call.phase = "idle"
    /\ call' = Pending("scan", [modelName |-> modelName])
    /\ UNCHANGED <<dbItem, host, esClient, constructed, lastClient>>

query(modelName) ==
    /\ call.phase = "idle"
    /\ call' = Pending("query", [modelName |-> modelName])
    /\ UNCHANGED <<dbItem, host, esClient, constructed, lastClient>>

scanExec(r) ==
    /\ call.phase = "pending"
    /\ call.op = "scan"
    /\ call' = scanCallback(call, r)
    /\ UNCHANGED <<dbItem, host, esClient, constructed, lastClient>>

queryExec(r) ==
    /\ call.phase = "pending"
    /\ call.op = "query"
    /\ call' = queryCallback(call, r)
    /\ UNCHANGED <<dbItem, host, esClient, constructed, lastClient>>

----------------------------------------------------------------------------
\* hasAdminRole / canManageMember

\* A synchronous function that returned `value`.
Returned(op, in, value) ==
    [op |-> op, phase |-> "returned", in |-> in, resp |-> NoResponse,
     out |-> value, error |-> "", storeCalls |-> 0]

\* A synchronous function that threw error e with message `message`.
Thrown(op, in, e, message) ==
    [op |-> op, phase |-> "thrown", in |-> in, resp |-> NoResponse,
     out |-> message, error |-> e, storeCalls |-> 0]

\* constants.ADMIN_ROLES of app-constants.
ADMIN_ROLES == <<"administrator", "admin">>

\* authUser.roles: undefined, or an array of role names.
NoRoles == [present |-> FALSE, rows |-> <<>>]
RoleLists ==
    {NoRoles} \cup
    {[present |-> TRUE, rows |-> r] :
        r \in {<<>>, <<"Admin">>, <<"copilot">>, <<"copilot", "ADMINISTRATOR">>}}

\* The authenticated user: null, or an object whose isMachine and handle may be undefined.
NullUser == [isNull |-> TRUE, isMachine |-> Undefined, roles |-> NoRoles, handle |-> Undefined]
AuthUsers ==
    {NullUser} \cup
    {[isNull |-> FALSE, isMachine |-> m, roles |-> r, handle |-> h] :
        m \in {True, False, Undefined}, r \in RoleLists,
        h \in {Undefined, "", "Bob", "bob", "amy"}}

hasAdminRole(authUser) ==
    IF ~authUser.roles.present
        THEN False
        ELSE ToBool(\E i \in 1..Len(authUser.roles.rows), j \in 1..Len(ADMIN_ROLES) :
                        toLowerCase(authUser.roles.rows[i]) = toLowerCase(ADMIN_ROLES[j]))

\* a && b and a || b yield one of their operands, not a boolean.
And(a, b) == IF Truthy(a) THEN b ELSE a
Or(a, b) == IF Truthy(a) THEN a ELSE b

\* The value of: currentUser && (currentUser.isMachine || hasAdminRole(currentUser) ||
\*   (currentUser.handle && currentUser.handle.toLowerCase() === member.handleLower))
canManageMemberValue(currentUser, member) ==
    IF currentUser.isNull
        THEN Null
        ELSE Or(currentUser.isMachine,
                Or(hasAdminRole(currentUser),
                   And(currentUser.handle,
                       ToBool(toLowerCase(currentUser.handle) = member.handleLower))))

canManageMember(currentUser, member) ==
    /\ call.phase = "idle"
    /\ call' = Returned("canManageMember", [currentUser |-> currentUser, member |-> member],
                        canManageMemberValue(currentUser, member))
    /\ UNCHANGED <<dbItem, host, esClient, constructed, lastClient>>

----------------------------------------------------------------------------
\* parseCommaSeparatedString

\* A string is the sequence of its symbols: the comma, the blank and words.
Symbols == {",", " ", "a", "b", "constructor"}
Strings == UNION {[1..n -> Symbols] : n \in 0..MaxLen}

\* The argument s: undefined, or a string.
NoString == [present |-> FALSE, chars |-> <<>>]
StringArgs == {NoString} \cup {[present |-> TRUE, chars |-> c] : c \in Strings}

\* The argument allowedValues: undefined, or an array of strings.
NoAllowed == [present |-> FALSE, rows |-> <<>>]
AllowedArgs ==
    {NoAllowed, [present |-> TRUE, rows |-> << <<"a">>, <<"b">> >>],
     [present |-> TRUE, rows |-> << <<"a">>, <<"constructor">>, <<" ">> >>]}

\* s.split(','): the pieces between the commas, empty pieces included.
RECURSIVE split(_)
split(chars) ==
    IF \A i \in 1..Len(chars) : chars[i] # ","
        THEN <<chars>>
        ELSE LET i == CHOOSE j \in 1..Len(chars) :
                        chars[j] = "," /\ \A k \in 1..(j - 1) : chars[k] # ","
             IN <<SubSeq(chars, 1, i - 1)>> \o split(SubSeq(chars, i + 1, Len(chars)))

\* value.trim(): the blanks at both ends removed.
RECURSIVE trim(_)
trim(value) ==
    IF value = <<>> THEN value
    ELSE IF Head(value) = " " THEN trim(Tail(value))
    ELSE IF value[Len(value)] = " " THEN trim(SubSeq(value, 1, Len(value) - 1))
    ELSE value

\* _.includes(allowedValues, value)
includes(allowedValues, value) ==
    \E i \in 1..Len(allowedValues.rows) : allowedValues.rows[i] = value

\* The names every object literal inherits from Object.prototype, as far as the
\* strings of the model can spell them.
ObjectPrototypeKeys == {<<"constructor">>}

\* mapping[value] is truthy: value was set by the loop, or {} inherits it.
mappingHas(mapping, value) == value \in mapping \/ value \in ObjectPrototypeKeys

\* The _.forEach loop from element i on; mapping holds the values set to true.
RECURSIVE forEachValue(_, _, _, _)
forEachValue(values, i, mapping, allowedValues) ==
    IF i > Len(values) THEN "ok"
    ELSE IF Len(trim(values[i])) = 0 THEN "Empty value."
    ELSE IF allowedValues.present /\ ~includes(allowedValues, values[i]) THEN "Invalid value"
    ELSE IF mappingHas(mapping, values[i]) THEN "Duplicate values"
    ELSE forEachValue(values, i + 1, mapping \cup {values[i]}, allowedValues)

NullValues == [isNull |-> TRUE, values |-> <<>>]

parseCommaSeparatedString(s, allowedValues) ==
    /\ call.phase = "idle"
    /\ LET in == [s |-> s, allowedValues |-> allowedValues]
           values == split(s.chars)
           verdict == forEachValue(values, 1, {}, allowedValues)
       IN call' =
            IF ~s.present \/ s.chars = <<>>
                THEN Returned("parseCommaSeparatedString", in, NullValues)
                ELSE IF verdict # "ok"
                    THEN Thrown("parseCommaSeparatedString", in, "BadRequest", verdict)
                    ELSE Returned("parseCommaSeparatedString", in,
                                  [isNull |-> FALSE, values |-> values])
    /\ UNCHANGED <<dbItem, host, esClient, constructed, lastClient>>

----------------------------------------------------------------------------
\* getPageLink / setResHeaders

\* The decimal digits of a number, as querystring.stringify writes it.
Digit(d) == <<"0", "1", "2", "3", "4", "5", "6", "7", "8", "9">>[d + 1]
RECURSIVE NumberToString(_)
NumberToString(n) ==
    IF n < 10 THEN Digit(n) ELSE NumberToString(n \div 10) \o Digit(n % 10)

\* req.query: the parsed query parameters, in the order they were given.
ReqQueries ==
    {<<>>,
     <<[k |-> "handle", v |-> "bob"]>>,
     <<[k |-> "page", v |-> "9"], [k |-> "handle", v |-> "bob"]>>,
     <<[k |-> "sort", v |-> "asc"], [k |-> "page", v |-> "2"]>>}

\* The request: protocol, Host header, baseUrl and path, and the query.
Requests ==
    {[protocol |-> "https", Host |-> "api.topcoder.com", baseUrl |-> "/v5", path |-> "/members",
      query |-> q] : q \in ReqQueries}

\* The result envelope; page and perPage are at least 1, total at least 0.
ResultEnvelopes == [page : 1..MaxPage, perPage : 1..MaxPerPage, total : 0..MaxTotal]

\* _.assignIn({}, req.query, { page }): a key already there keeps its place.
assignInPage(q, page) ==
    IF \E i \in 1..Len(q) : q[i].k = "page"
        THEN [i \in 1..Len(q) |->
                IF q[i].k = "page" THEN [k |-> "page", v |-> page] ELSE q[i]]
        ELSE Append(q, [k |-> "page", v |-> page])

\* querystring.stringify(q): the key=value pairs in order, numbers in decimal.
stringify(q) ==
    [i \in 1..Len(q) |->
        [k |-> q[i].k, v |-> IF q[i].k = "page" THEN NumberToString(q[i].v) ELSE q[i].v]]
\* A page link that drops the request's own query parameters.
getPageLinkPageOnly(req, page) ==
    [prefix |-> req.protocol \o "://" \o req.Host \o req.baseUrl \o req.path,
     query |-> stringify(<<[k |-> "page", v |-> page]>>)]

getPageLink(req, page) ==
    [prefix |-> req.protocol \o "://" \o req.Host \o req.baseUrl \o req.path,
     query |-> stringify(assignInPage(req.query, page))]
\* Math.floor in place of Math.ceil.
floorDiv(total, perPage) == total \div perPage

\* Math.ceil(result.total / result.perPage)
ceilDiv(total, perPage) ==
    IF total % perPage = 0 THEN total \div perPage ELSE (total \div perPage) + 1

\* res.set(name, value) on the numeric headers.
set(headers, name, value) ==
    [h \in DOMAIN headers \cup {name} |-> IF h = name THEN value ELSE headers[h]]

NoLink == [present |-> FALSE, rows |-> <<>>]
NoHeaders == [h \in {} |-> 0]

\* X- headers whose X-Prev-Page is left out when there are no pages.
xHeadersPrevNeedsPages(result) ==
    LET totalPages == ceilDiv(result.total, result.perPage)
        h1 == IF result.page > 1 /\ totalPages > 0
              THEN set(NoHeaders, "X-Prev-Page", result.page - 1)
              ELSE NoHeaders
        h2 == IF result.page < totalPages THEN set(h1, "X-Next-Page", result.page + 1) ELSE h1
    IN set(set(set(set(h2, "X-Page", result.page), "X-Per-Page", result.perPage),
               "X-Total", result.total), "X-Total-Pages", totalPages)

\* The X- headers setResHeaders sets.
xHeaders(result) ==
    LET totalPages == ceilDiv(result.total, result.perPage)
        h1 == IF result.page > 1 THEN set(NoHeaders, "X-Prev-Page", result.page - 1)
              ELSE NoHeaders
        h2 == IF result.page < totalPages THEN set(h1, "X-Next-Page", result.page + 1) ELSE h1
    IN set(set(set(set(h2, "X-Page", result.page), "X-Per-Page", result.perPage),
               "X-Total", result.total), "X-Total-Pages", totalPages)
\* The Link header setResHeaders sets: its anchors in order, or none.
linkHeader(req, result) ==
    LET totalPages == ceilDiv(result.total, result.perPage)
        l0 == <<[url |-> getPageLink(req, 1), rel |-> "first"],
                [url |-> getPageLink(req, totalPages), rel |-> "last"]>>
        l1 == IF result.page > 1
              THEN Append(l0, [url |-> getPageLink(req, result.page - 1), rel |-> "prev"])
              ELSE l0
        l2 == IF result.page < totalPages
              THEN Append(l1, [url |-> getPageLink(req, result.page + 1), rel |-> "next"])
              ELSE l1
    IN IF totalPages > 0 THEN [present |-> TRUE, rows |-> l2] ELSE NoLink

setResHeaders(req, result) ==
    /\ call.phase = "idle"
    /\ call' = Returned("setResHeaders", [req |-> req, result |-> result],
                        [headers |-> xHeaders(result), link |-> linkHeader(req, result)])
    /\ UNCHANGED <<dbItem, host, esClient, constructed, lastClient>>

----------------------------------------------------------------------------
\* The caller takes the outcome; the next helper call can start.
Done ==
    /\ call.phase \notin {"idle", "pending"}
    /\ call' = Idle
    /\ UNCHANGED <<dbItem, host, esClient, constructed, lastClient>>

----------------------------------------------------------------------------
\* getESClient

\* config ES.HOST, as the pieces of the host string.
Hosts ==
    {<<"localhost", ":9200">>, <<"search-member.", "amazonaws", ".com">>}

\* /.*amazonaws.*/.test(esHost)
testAmazonaws(esHost) == \E i \in 1..Len(esHost) : esHost[i] = "amazonaws"

\* esClient before the first construction (undefined).
NoClient == [set |-> FALSE, id |-> 0, path |-> "none"]

\* elasticsearch.Client({... connectionClass, amazonES ...}) on the AWS path,
\* new elasticsearch.Client({apiVersion, hosts}) otherwise; n clients exist already.
newClient(esHost, n) ==
    [set |-> TRUE, id |-> n + 1, path |-> IF testAmazonaws(esHost) THEN "aws" ELSE "plain"]
\* A getESClient that constructs a client on every call.
getESClientBodyNoCache(client, n, esHost) ==
    [esClient |-> newClient(esHost, n), constructed |-> n + 1, ret |-> newClient(esHost, n)]

\* The body of getESClient: the new esClient, the new count of constructed
\* clients and the returned client.
getESClientBody(client, n, esHost) ==
    IF client.set
        THEN [esClient |-> client, constructed |-> n, ret |-> client]
        ELSE [esClient |-> newClient(esHost, n), constructed |-> n + 1,
              ret |-> newClient(esHost, n)]

\* getESClient is synchronous: it can run between any two steps of the other
\* helpers, also while a store call is pending.
getESClient ==
    /\ constructed < MaxClients
    /\ LET b == getESClientBody(esClient, constructed, host)
       IN /\ esClient' = b.esClient
          /\ constructed' = b.constructed
          /\ lastClient' = [client |-> b.ret, cached |-> b.constructed = constructed]
    /\ UNCHANGED <<call, dbItem, host>>

Init ==
    /\ call = Idle
    /\ dbItem \in RowPool
    /\ host \in Hosts
    /\ esClient = NoClient
    /\ constructed = 0
    /\ lastClient = [client |-> NoClient, cached |-> FALSE]

Next ==
    \/ \E m \in ModelNames, k \in HashKeyNames, v \in FieldValues : getEntityByHashKey(m, k, v)
    \/ \E h \in Handles : getMemberByHandle(h)
    \/ \E r \in ExecResponses : lookupExec(r)
    \/ \E m \in ModelNames, d \in Data : create(m, d)
    \/ \E d \in Data : update(d)
    \/ \E r \in SaveResponses : saveDone(r)
    \/ \E m \in ModelNames : scan(m)
    \/ \E m \in ModelNames : query(m)
    \/ \E r \in ExecResponses : scanExec(r)
    \/ \E r \in ExecResponses : queryExec(r)
    \/ getESClient
    \/ \E req \in Requests, result \in ResultEnvelopes : setResHeaders(req, result)
    \/ \E u \in AuthUsers, m \in RowPool : canManageMember(u, m)
    \/ \E a \in StringArgs, al \in AllowedArgs : parseCommaSeparatedString(a, al)
    \/ Done

Spec == Init /\ [][Next]_vars

----------------------------------------------------------------------------
\* Properties.

Settled == call.phase \notin {"idle", "pending"}

LookupOps == {"getEntityByHashKey", "getMemberByHandle"}
StoreOps == {"getEntityByHashKey", "getMemberByHandle", "create", "update", "scan", "query"}

\* C1: when the store's query reports no error, getEntityByHashKey and
\* getMemberByHandle (which queries handleLower for the lower-cased handle) reject
\* with NotFound if the result is absent or has zero rows, and otherwise resolve
\* with the first row of the result and do not raise.
C1_LookupNotFoundOrFirstRow ==
    (call.op \in LookupOps /\ Settled /\ call.resp.err = Null) =>
        /\ (call.op = "getMemberByHandle" =>
                call.in.key = "handleLower" /\ call.in.eq \in {"bob", "amy"})
        /\ IF ~call.resp.result.present \/ Len(call.resp.result.rows) = 0
               THEN call.phase = "rejected" /\ call.error = "NotFound"
               ELSE /\ call.phase = "resolved"
                    /\ call.error = ""
                    /\ call.out = call.resp.result.rows[1]

\* A lookup of several, different rows resolved.
C1_Witness ==
    /\ call.op = "getEntityByHashKey"
    /\ call.phase = "resolved"
    /\ Len(call.resp.result.rows) = 2
    /\ call.resp.result.rows[1] # call.resp.result.rows[2]

\* C2: whenever the store reports no error to scan or query, also with zero
\* matches or with no result object at all, the operation resolves with a
\* sequence, the empty one when there are zero matches.
C2_ScanQueryResolveWithSequence ==
    (call.op \in {"scan", "query"} /\ Settled /\ call.resp.err = Null) =>
        /\ call.phase = "resolved"
        /\ call.out.present
        /\ (Len(call.resp.result.rows) = 0 => call.out.rows = <<>>)

\* C3: update(entity, data) merges field-wise and persists once: every field
\* data names holds data's value, every other field holds the value it had
\* before the call, and the merged entity is the one saved and returned.
C3_UpdateShallowMerge ==
    (call.op = "update" /\ call.phase # "idle") =>
        /\ \A k \in DOMAIN call.in.data : dbItem[k] = call.in.data[k]
        /\ \A k \in Fields \ DOMAIN call.in.data : dbItem[k] = call.in.before[k]
        /\ DOMAIN dbItem = Fields
        /\ call.in.item = dbItem
        /\ call.storeCalls = 1
        /\ (call.phase = "resolved" => call.out = dbItem)

\* An update of one field of an item whose fields all differ from data's resolved.
C3_Witness ==
    /\ call.op = "update"
    /\ call.phase = "resolved"
    /\ DOMAIN call.in.data = {"email"}
    /\ call.in.before.email # call.in.data.email
    /\ call.in.before.handleLower # call.in.data.email

\* The condition of C4 on the principal and the member.
MayManage(u, m) ==
    /\ ~u.isNull
    /\ \/ u.isMachine = True
       \/ hasAdminRole(u) = True
       \/ u.handle # Undefined /\ toLowerCase(u.handle) = m.handleLower

\* C4: canManageMember returns true if and only if the principal is a machine
\* actor, has an admin role, or has the member's handle (compared in lower case),
\* and returns false otherwise, for an absent principal in particular.
C4_CanManageMemberTrueIff ==
    call.op = "canManageMember" =>
        call.out = ToBool(MayManage(call.in.currentUser, call.in.member))

\* ceil(total / perPage), as the least n with n * perPage >= total.
TotalPagesOf(result) ==
    CHOOSE n \in 0..result.total :
        n * result.perPage >= result.total /\ (n = 0 \/ (n - 1) * result.perPage < result.total)

HeaderIs(headers, name, value) == name \in DOMAIN headers /\ headers[name] = value

\* C5: setResHeaders always sets X-Page, X-Per-Page, X-Total and X-Total-Pages
\* (= ceil(total / perPage)), sets X-Prev-Page to page - 1 iff page > 1 and
\* X-Next-Page to page + 1 iff page < totalPages.
C5_PaginationHeaders ==
    call.op = "setResHeaders" =>
        LET result == call.in.result
            h == call.out.headers
        IN /\ HeaderIs(h, "X-Page", result.page)
           /\ HeaderIs(h, "X-Per-Page", result.perPage)
           /\ HeaderIs(h, "X-Total", result.total)
           /\ HeaderIs(h, "X-Total-Pages", TotalPagesOf(result))
           /\ ("X-Prev-Page" \in DOMAIN h <=> result.page > 1)
           /\ ("X-Prev-Page" \in DOMAIN h => h["X-Prev-Page"] = result.page - 1)
           /\ ("X-Next-Page" \in DOMAIN h <=> result.page < TotalPagesOf(result))
           /\ ("X-Next-Page" \in DOMAIN h => h["X-Next-Page"] = result.page + 1)

\* A middle page of a total that perPage does not divide: both neighbours are set.
C5_Witness ==
    /\ call.op = "setResHeaders"
    /\ call.in.result = [page |-> 2, perPage |-> 3, total |-> 7]
    /\ HeaderIs(call.out.headers, "X-Total-Pages", 3)
    /\ HeaderIs(call.out.headers, "X-Prev-Page", 1)
    /\ HeaderIs(call.out.headers, "X-Next-Page", 3)

\* The query of an anchor is the request's query with only page set to p.
OnlyPageOverridden(req, url, p) ==
    LET q == url.query
        keys == {q[i].k : i \in 1..Len(q)}
        reqKeys == {req.query[i].k : i \in 1..Len(req.query)}
    IN /\ Cardinality(keys) = Len(q)
       /\ keys = reqKeys \cup {"page"}
       /\ \A i \in 1..Len(q) :
            IF q[i].k = "page"
                THEN q[i].v = NumberToString(p)
                ELSE \E j \in 1..Len(req.query) : req.query[j] = q[i]

\* The Link header holds exactly one anchor of this rel, and it is for page p.
OneAnchor(req, link, rel, p) ==
    /\ Cardinality({i \in 1..Len(link.rows) : link.rows[i].rel = rel}) = 1
    /\ \A i \in 1..Len(link.rows) :
            link.rows[i].rel = rel => OnlyPageOverridden(req, link.rows[i].url, p)

NoAnchor(link, rel) == \A i \in 1..Len(link.rows) : link.rows[i].rel # rel

\* C6: setResHeaders sets Link iff totalPages > 0; a Link that is set holds a
\* first anchor for page 1 and a last anchor for totalPages, a prev anchor for
\* page - 1 exactly when X-Prev-Page is set and a next anchor for page + 1 exactly
\* when X-Next-Page is set, and the query parameters of every anchor are the
\* request's with only page overridden.
C6_LinkHeader ==
    call.op = "setResHeaders" =>
        LET result == call.in.result
            req == call.in.req
            h == call.out.headers
            link == call.out.link
            totalPages == TotalPagesOf(result)
        IN /\ link.present <=> totalPages > 0
           /\ link.present =>
                /\ OneAnchor(req, link, "first", 1)
                /\ OneAnchor(req, link, "last", totalPages)
                /\ IF "X-Prev-Page" \in DOMAIN h
                       THEN result.page > 1 /\ OneAnchor(req, link, "prev", result.page - 1)
                       ELSE NoAnchor(link, "prev")
                /\ IF "X-Next-Page" \in DOMAIN h
                       THEN result.page < totalPages
                            /\ OneAnchor(req, link, "next", result.page + 1)
                       ELSE NoAnchor(link, "next")
                /\ \A i \in 1..Len(link.rows) :
                        link.rows[i].rel \in {"first", "last", "prev", "next"}

\* A Link of four anchors for a request that has a page and another parameter.
C6_Witness ==
    /\ call.op = "setResHeaders"
    /\ call.out.link.present
    /\ Len(call.out.link.rows) = 4
    /\ Len(call.in.req.query) = 2
    /\ \E i \in 1..2 : call.in.req.query[i].k = "page"

\* C7 as stated: with total = 0, for any page, totalPages is 0 and neither Link
\* nor X-Prev-Page nor X-Next-Page is set, while the four X- headers are, with
\* X-Total-Pages 0.
C7_NoNavigationWhenTotalZero ==
    (call.op = "setResHeaders" /\ call.in.result.total = 0) =>
        LET result == call.in.result
            h == call.out.headers
        IN /\ ~call.out.link.present
           /\ "X-Prev-Page" \notin DOMAIN h
           /\ "X-Next-Page" \notin DOMAIN h
           /\ HeaderIs(h, "X-Page", result.page)
           /\ HeaderIs(h, "X-Per-Page", result.perPage)
           /\ HeaderIs(h, "X-Total", 0)
           /\ HeaderIs(h, "X-Total-Pages", 0)

\* C7 amended: with total = 0, totalPages is 0 and neither Link nor X-Next-Page
\* is set; X-Prev-Page is set, to page - 1, exactly when page > 1; the four X-
\* headers are set, with X-Total-Pages 0.
C7_TotalZeroKeepsPrevPage ==
    (call.op = "setResHeaders" /\ call.in.result.total = 0) =>
        LET result == call.in.result
            h == call.out.headers
        IN /\ ~call.out.link.present
           /\ ("X-Prev-Page" \in DOMAIN h <=> result.page > 1)
           /\ ("X-Prev-Page" \in DOMAIN h => h["X-Prev-Page"] = result.page - 1)
           /\ "X-Next-Page" \notin DOMAIN h
           /\ HeaderIs(h, "X-Page", result.page)
           /\ HeaderIs(h, "X-Per-Page", result.perPage)
           /\ HeaderIs(h, "X-Total", 0)
           /\ HeaderIs(h, "X-Total-Pages", 0)

\* An empty result asked for at a page after the first.
C7_Witness ==
    /\ call.op = "setResHeaders"
    /\ call.in.result.total = 0
    /\ call.in.result.page > 1
    /\ HeaderIs(call.out.headers, "X-Prev-Page", call.in.result.page - 1)

\* What C8 says makes parseCommaSeparatedString fail: an element that is empty
\* (nothing but blanks, which is what the code's 'Empty value.' test rejects),
\* an element outside allowedValues when given, or an element occurring twice.
MustFail(values, allowedValues) ==
    \/ \E i \in 1..Len(values) : trim(values[i]) = <<>>
    \/ allowedValues.present /\ \E i \in 1..Len(values) : ~includes(allowedValues, values[i])
    \/ \E i, j \in 1..Len(values) : i # j /\ values[i] = values[j]

\* C8: parseCommaSeparatedString returns null for an empty or absent s;
\* otherwise it fails with BadRequest if and only if an element is empty, is
\* outside allowedValues (when given) or occurs more than once, and when it does
\* not fail it returns the elements in input order.
C8_ParseFailsIff ==
    call.op = "parseCommaSeparatedString" =>
        LET s == call.in.s
            values == split(s.chars)
        IN IF ~s.present \/ s.chars = <<>>
               THEN call.phase = "returned" /\ call.out.isNull
               ELSE IF MustFail(values, call.in.allowedValues)
                   THEN call.phase = "thrown" /\ call.error = "BadRequest"
                   ELSE /\ call.phase = "returned"
                        /\ ~call.out.isNull
                        /\ call.out.values = values

\* C9: at most one Elasticsearch client is ever constructed, by the first call
\* and on the path the configured host selects; the cached client is never
\* cleared or replaced, and every call returns it.
C9_ESClientSingleton ==
    /\ constructed <= 1
    /\ esClient.set <=> constructed = 1
    /\ esClient.set =>
            /\ esClient.id = 1
            /\ esClient.path = IF \E i \in 1..Len(host) : host[i] = "amazonaws"
                               THEN "aws" ELSE "plain"
    /\ lastClient.client = esClient
    /\ lastClient.cached => esClient.set

\* A later call returned the cached client of an amazonaws host.
C9_Witness ==
    /\ lastClient.cached
    /\ lastClient.client.set
    /\ lastClient.client.path = "aws"
    /\ constructed = 1

\* C10: every data-access operation issues exactly one store call, and when the
\* store reports an error it rejects with that error and resolves with nothing.
C10_StoreErrorPropagates ==
    (call.op \in StoreOps) =>
        /\ call.storeCalls = 1
        /\ (Settled /\ call.resp.err # Null) =>
                /\ call.phase = "rejected"
                /\ call.error = call.resp.err
                /\ call.out = Undefined

\* An update whose save failed.
C10_Witness ==
    /\ call.op = "update"
    /\ call.phase = "rejected"
    /\ call.resp.err = "ValidationError"

====
